---- MODULE Spec2Model ----
(***************************************************************************)
(* Nested transaction blocks of psycopg/transaction.py: BaseTransaction    *)
(* objects entering and exiting against one connection, the connection's   *)
(* _savepoints stack, and the server-side transaction the commands act on. *)
(***************************************************************************)
EXTENDS Integers, Sequences, FiniteSets, TLC

\* Number of Transaction objects built on the connection.
NScopes == 2

Scopes == 1 .. NScopes

\* savepoint_name arguments given to the constructor ("" is `None or ""`).
ExplicitNames == {"x", "_pg3_2"}
CtorNames == ExplicitNames \cup {""}

VARIABLES
    savepoint_name,      \* self._savepoint_name, per scope
    force_rollback,      \* self.force_rollback, per scope
    entered,             \* self._entered, per scope
    exited,              \* self._exited, per scope
    outer_transaction,   \* self._outer_transaction, per scope
    savepoints,          \* self._conn._savepoints
    transaction_status,  \* self._conn.pgconn.transaction_status
    server_savepoints,   \* savepoints open in the server-side transaction
    blk,                 \* per scope: "new", "built", "open", "closed"
    stackAtEntry,        \* _savepoints as it was when the scope's entry began
    pushes,              \* number of appends to _savepoints made by each scope
    nested,              \* every exit so far was of the innermost active scope
    chain,               \* exits run so far for the exception now propagating
    run,                 \* anonymous inner scopes entered since the last exit
    statusAtBuild,       \* transaction status when a scope not yet entered was built
    batchesOk,           \* every batch submitted so far was executed
    begunOutside,        \* the open transaction was begun outside the scopes
    last,                \* the call that has just returned to its caller
    lock,                \* holder of self._conn.lock, NoCaller when free
    pc,                  \* position of each caller inside __enter__/__exit__
    frame                \* locals of the call each caller is running

vars == << savepoint_name, force_rollback, entered, exited, outer_transaction,
           savepoints, transaction_status, server_savepoints, blk,
           stackAtEntry, pushes, nested, chain, run, statusAtBuild,
           batchesOk, begunOutside, last, lock, pc, frame >>

scopeVars == << savepoint_name, force_rollback, entered, exited,
                outer_transaction >>

\* the callers' positions when the steps inside a call are followed
lockVars == << lock, pc, frame >>

\* the record of whole calls and of the history of the blocks
callVars == << blk, stackAtEntry, pushes, nested, chain, run, statusAtBuild,
              batchesOk, begunOutside, last >>

----------------------------------------------------------------------------
(* Sequences *)

Front(s) == SubSeq(s, 1, Len(s) - 1)
Last(s) == s[Len(s)]

RECURSIVE Reverse(_)
Reverse(s) == IF s = << >> THEN << >> ELSE Append(Reverse(Tail(s)), Head(s))

RECURSIVE SelectScopes(_, _)
\* the scopes of seq that belong to the set keep, in order
SelectScopes(seq, keep) ==
    IF seq = << >> THEN << >>
    ELSE IF Head(seq) \in keep
         THEN << Head(seq) >> \o SelectScopes(Tail(seq), keep)
         ELSE SelectScopes(Tail(seq), keep)

----------------------------------------------------------------------------
(* Block outcomes handed to __exit__ as exc_val *)

NoTarget == 0

\* the target of a Rollback object that has no `transaction` attribute (an
\* instance of a subclass whose __init__ does not call Rollback.__init__)
NoAttr == -1

\* truth is what bool(exc_val) gives: "False" for None, "True" for an
\* exception unless its class says otherwise
SigNone == [type |-> "None", target |-> NoTarget, truth |-> "False"]
SigError == [type |-> "Error", target |-> NoTarget, truth |-> "True"]
SigCancel == [type |-> "Cancel", target |-> NoTarget, truth |-> "True"]
SigRollback(t) == [type |-> "Rollback", target |-> t, truth |-> "True"]

\* the same exception from a subclass whose instances are false (it defines
\* __bool__ returning False, or __len__ returning 0); it keeps its type, so a
\* false instance of a subclass of Rollback is still a Rollback with a target
Falsy(sig) == [sig EXCEPT !.truth = "False"]
SigFalsy == Falsy(SigError)

\* the same exception from a subclass whose __bool__ or __len__ raises: its
\* truth value cannot be taken
Raising(sig) == [sig EXCEPT !.truth = "Raises"]

Exceptions == {SigError, SigCancel}
                  \cup {SigRollback(t) : t \in Scopes \cup {NoTarget, NoAttr}}

Signals == {SigNone} \cup Exceptions \cup {Falsy(sig) : sig \in Exceptions}
               \cup {Raising(sig) : sig \in Exceptions}

\* isinstance(exc_val, Rollback)
IsRollback(sig) == sig.type = "Rollback"

----------------------------------------------------------------------------
(* Commands *)

Cmd(c, n) == [cmd |-> c, name |-> n]

CmdBegin == Cmd("BEGIN", "")
CmdCommit == Cmd("COMMIT", "")
CmdRollback == Cmd("ROLLBACK", "")
CmdDeallocate == Cmd("DEALLOCATE ALL", "")
CmdSavepoint(n) == Cmd("SAVEPOINT", n)
CmdRelease(n) == Cmd("RELEASE", n)
CmdRollbackTo(n) == Cmd("ROLLBACK TO", n)

----------------------------------------------------------------------------
(* The server and the execute collaborator (Connection._exec_command).     *)
(* A server state is [status, sps]: the transaction status reported by     *)
(* pgconn.transaction_status and the savepoints open in the transaction.   *)

Statuses == {"IDLE", "INTRANS", "INERROR"}

Srv(st, sps) == [status |-> st, sps |-> sps]

\* index of the most recent savepoint called n, 0 when there is none
LatestSavepoint(sps, n) ==
    IF \E i \in 1 .. Len(sps) : sps[i] = n
    THEN CHOOSE i \in 1 .. Len(sps) :
             sps[i] = n /\ \A j \in (i + 1) .. Len(sps) : sps[j] # n
    ELSE 0

\* a command rejected by the server aborts the open transaction, if any
Rejected(srv) ==
    [ok |-> FALSE,
     srv |-> Srv(IF srv.status = "IDLE" THEN "IDLE" ELSE "INERROR", srv.sps)]

Accepted(st, sps) == [ok |-> TRUE, srv |-> Srv(st, sps)]

ApplyCmd(srv, c) ==
    CASE c.cmd = "BEGIN" ->
            IF srv.status = "IDLE" THEN Accepted("INTRANS", << >>)
            ELSE IF srv.status = "INTRANS" THEN Accepted("INTRANS", srv.sps)
            ELSE Rejected(srv)
      [] c.cmd = "SAVEPOINT" ->
            IF srv.status = "INTRANS"
            THEN Accepted("INTRANS", Append(srv.sps, c.name))
            ELSE Rejected(srv)
      [] c.cmd = "RELEASE" ->
            IF srv.status = "INTRANS" /\ LatestSavepoint(srv.sps, c.name) > 0
            THEN Accepted("INTRANS",
                     SubSeq(srv.sps, 1, LatestSavepoint(srv.sps, c.name) - 1))
            ELSE Rejected(srv)
      [] c.cmd = "ROLLBACK TO" ->
            IF srv.status # "IDLE" /\ LatestSavepoint(srv.sps, c.name) > 0
            THEN Accepted("INTRANS",
                     SubSeq(srv.sps, 1, LatestSavepoint(srv.sps, c.name)))
            ELSE Rejected(srv)
      [] c.cmd = "COMMIT" -> Accepted("IDLE", << >>)
      [] c.cmd = "ROLLBACK" -> Accepted("IDLE", << >>)
      [] OTHER ->
            IF srv.status = "INERROR" THEN Rejected(srv)
            ELSE Accepted(srv.status, srv.sps)

RECURSIVE RunBatch(_, _)
RunBatch(batch, srv) ==
    IF batch = << >> THEN [ok |-> TRUE, srv |-> srv]
    ELSE LET r == ApplyCmd(srv, Head(batch))
         IN  IF r.ok THEN RunBatch(Tail(batch), r.srv) ELSE r

\* execute(batch): `fail` is an error returned by the collaborator that the
\* commands themselves do not explain (connection or server trouble).
ExecCommand(batch, srv, fail) ==
    IF fail \/ batch = << >> THEN Rejected(srv) ELSE RunBatch(batch, srv)

\* self._conn._prepared.clear() followed by get_maintenance_commands():
\* `cleared` is the answer of clear(), true when statements prepared on the
\* server have to be deallocated
PreparedClear(cleared) == IF cleared THEN << CmdDeallocate >> ELSE << >>

----------------------------------------------------------------------------
(* BaseTransaction.  A scope object is the record of its attributes.       *)

\* BaseTransaction.__init__
Construct(name, force) ==
    [savepoint_name |-> name, force_rollback |-> force, entered |-> FALSE,
     exited |-> FALSE, outer_transaction |-> FALSE]

\* mutant: the name does not follow the depth of the stack
SynthName_Fixed(depth) == "_pg3_1"

\* f"_pg3_{len(self._conn._savepoints) + 1}"
SynthName(depth) == "_pg3_" \o ToString(depth + 1)

\* mutant: an anonymous inner scope gets the first synthesized name, from
\* the depth of the stack upwards, that is not on the stack
push_savepoint_fresh(name, status, stack) ==
    LET outer == (status = "IDLE")
        free == {d \in Len(stack) .. 2 * Len(stack) + 1 :
                     \A i \in 1 .. Len(stack) : stack[i] # SynthName(d)}
        d0 == CHOOSE d \in free : \A e \in free : d <= e
        nm == IF ~outer /\ name = "" THEN SynthName(d0) ELSE name
    IN  IF outer /\ stack # << >>
        THEN [raised |-> "AssertionError", outer |-> outer, name |-> name,
              stack |-> stack, pushed |-> 0]
        ELSE [raised |-> "None", outer |-> outer, name |-> nm,
              stack |-> Append(stack, nm), pushed |-> 1]

\* mutant: the scope is the outer one when the stack is empty, whatever the
\* transaction status is
push_savepoint_by_stack(name, status, stack) ==
    LET outer == (stack = << >>)
        nm == IF ~outer /\ name = "" THEN SynthName(Len(stack)) ELSE name
    IN  [raised |-> "None", outer |-> outer, name |-> nm,
         stack |-> Append(stack, nm), pushed |-> 1]

\* _push_savepoint: raised is "AssertionError" when the assertion fails
push_savepoint(name, status, stack) ==
    LET outer == (status = "IDLE")
        nm == IF ~outer /\ name = "" THEN SynthName(Len(stack)) ELSE name
    IN  IF outer /\ stack # << >>
        THEN [raised |-> "AssertionError", outer |-> outer, name |-> name,
              stack |-> stack, pushed |-> 0]
        ELSE [raised |-> "None", outer |-> outer, name |-> nm,
              stack |-> Append(stack, nm), pushed |-> 1]

\* the comparison of _pop_savepoint: an exception is returned on mismatch
NestingError(sp, name) == sp # name

pop_savepoint(name, stack) ==
    IF stack = << >>
    THEN [raised |-> "IndexError", stack |-> stack, didPop |-> FALSE,
          sp |-> "", ex |-> FALSE]
    ELSE [raised |-> "None", stack |-> Front(stack), didPop |-> TRUE,
          sp |-> Last(stack), ex |-> NestingError(Last(stack), name)]

\* mutant: only a scope that is still open refuses to be entered
UsedOnce_WhileOpen(sc) == sc.entered /\ ~sc.exited

\* `if self._entered: raise TypeError(...)`
UsedOnce(sc) == sc.entered

EnterCommands(outer, name) ==
    (IF outer THEN << CmdBegin >> ELSE << >>)
        \o (IF name # "" THEN << CmdSavepoint(name) >> ELSE << >>)

\* What one run of _enter_gen did: the exception it raised ("None" when it
\* returned), the scope and the stack it left, the batch it submitted.
EnterRec(raised, sc, stack, pushed, submitted, batch, srv) ==
    [raised |-> raised, sc |-> sc, stack |-> stack, pushed |-> pushed,
     submitted |-> submitted, batch |-> batch, srv |-> srv]

enter_gen(sc, fail) ==
    LET srv == Srv(transaction_status, server_savepoints)
    IN  IF UsedOnce(sc)
        THEN EnterRec("TypeError", sc, savepoints, 0, FALSE, << >>, srv)
        ELSE LET p == push_savepoint(sc.savepoint_name, transaction_status,
                                     savepoints)
                 sc2 == [sc EXCEPT !.entered = TRUE,
                                   !.outer_transaction = p.outer,
                                   !.savepoint_name = p.name]
             IN  IF p.raised # "None"
                 THEN EnterRec(p.raised, sc2, p.stack, p.pushed, FALSE,
                               << >>, srv)
                 ELSE LET batch == EnterCommands(p.outer, p.name)
                          r == ExecCommand(batch, srv, fail)
                      IN  EnterRec(IF r.ok THEN "None" ELSE "ExecError", sc2,
                                   p.stack, p.pushed, TRUE, batch, r.srv)

\* `not exc_val`: "True" for None and for an exception object that is false,
\* "False" for one that is true, "Raises" when taking the truth value of the
\* object raises
NotExcVal(sig) ==
    CASE sig.truth = "Raises" -> "Raises"
      [] sig.truth = "False" -> "True"
      [] OTHER -> "False"

\* `if not exc_val and not self.force_rollback` of _exit_gen, when the test
\* of exc_val does not raise
TakesCommitPath(sig, force) == NotExcVal(sig) = "True" /\ ~force

\* `not exc_val` is evaluated first and its exception leaves _exit_gen,
\* whatever force_rollback is
TestRaises(sig) == NotExcVal(sig) = "Raises"

\* `exc_val.transaction` raises AttributeError
SwallowRaises(sig) == IsRollback(sig) /\ sig.target = NoAttr

\* `if not exc_val.transaction or exc_val.transaction is self`, for a Rollback
Swallows(sig, self) ==
    IsRollback(sig) /\ (sig.target = NoTarget \/ sig.target = self)

\* mutant: `except Exception` comes first and catches the nesting error too
SuppressedInRollback_All(raised) == TRUE

\* mutant: no except clause, the errors of the rollback reach the caller
SuppressedInRollback_None(raised) == FALSE

\* the except clauses of _exit_gen: everything derived from Exception is
\* logged and dropped, except OutOfOrderTransactionNesting, which is re-raised
SuppressedInRollback(raised) == raised # "OutOfOrderTransactionNesting"

\* mutant: `and not self._outer_transaction` is missing, a named outer scope
\* releases its savepoint before COMMIT
CommitCommands_ReleaseNamed(outer, name) ==
    (IF name # "" THEN << CmdRelease(name) >> ELSE << >>)
        \o (IF outer THEN << CmdCommit >> ELSE << >>)

\* the commands of _commit_gen
CommitCommands(outer, name) ==
    (IF name # "" /\ ~outer THEN << CmdRelease(name) >> ELSE << >>)
        \o (IF outer THEN << CmdCommit >> ELSE << >>)

\* mutant: the savepoint is rolled back to and not released
RollbackCommands_NoRelease(outer, name) ==
    (IF name # "" /\ ~outer THEN << CmdRollbackTo(name) >> ELSE << >>)
        \o (IF outer THEN << CmdRollback >> ELSE << >>)

\* the commands of _rollback_gen, before those of the prepared statements
RollbackCommands(outer, name) ==
    (IF name # "" /\ ~outer
     THEN << CmdRollbackTo(name), CmdRelease(name) >> ELSE << >>)
        \o (IF outer THEN << CmdRollback >> ELSE << >>)

\* mutant: the maintenance commands are left out of the batch
RollbackBatchWith_Dropped(commands, maint) == commands

\* `for cmd in ...get_maintenance_commands(): commands.append(cmd)`, before
\* the commands are joined and handed to _exec_command
RollbackBatchWith(commands, maint) == commands \o maint

\* What one run of _commit_gen or _rollback_gen did: the exception it raised
\* ("None" when it returned), the value returned, the state it left, the
\* number of calls of _prepared.clear() and the commands these yielded.
GenRec(raised, ret, p, exi, submitted, batch, srv, clears) ==
    [raised |-> raised, ret |-> ret, stack |-> p.stack, didPop |-> p.didPop,
     popped |-> p.sp, exited |-> exi, submitted |-> submitted,
     batch |-> batch, srv |-> srv, clears |-> clears, maint |-> << >>,
     execOk |-> (submitted /\ raised = "None")]

commit_gen(sc, fail) ==
    LET srv == Srv(transaction_status, server_savepoints)
        p == pop_savepoint(sc.savepoint_name, savepoints)
    IN  IF p.raised # "None"
        THEN GenRec(p.raised, FALSE, p, sc.exited, FALSE, << >>, srv, 0)
        ELSE IF p.ex
        THEN GenRec("OutOfOrderTransactionNesting", FALSE, p, TRUE, FALSE,
                    << >>, srv, 0)
        ELSE IF sc.outer_transaction /\ p.stack # << >>
        THEN GenRec("AssertionError", FALSE, p, TRUE, FALSE, << >>, srv, 0)
        ELSE LET batch == CommitCommands(sc.outer_transaction,
                                         sc.savepoint_name)
                 r == ExecCommand(batch, srv, fail)
             IN  GenRec(IF r.ok THEN "None" ELSE "ExecError", FALSE, p, TRUE,
                        TRUE, batch, r.srv, 0)

rollback_gen(sc, self, sig, fail, cleared) ==
    LET srv == Srv(transaction_status, server_savepoints)
        p == pop_savepoint(sc.savepoint_name, savepoints)
    IN  IF p.raised # "None"
        THEN GenRec(p.raised, FALSE, p, sc.exited, FALSE, << >>, srv, 0)
        ELSE IF p.ex
        THEN GenRec("OutOfOrderTransactionNesting", FALSE, p, TRUE, FALSE,
                    << >>, srv, 0)
        ELSE IF sc.outer_transaction /\ p.stack # << >>
        THEN GenRec("AssertionError", FALSE, p, TRUE, FALSE, << >>, srv, 0)
        ELSE LET maint == PreparedClear(cleared)
                 batch == RollbackBatchWith(
                              RollbackCommands(sc.outer_transaction,
                                               sc.savepoint_name), maint)
                 r == ExecCommand(batch, srv, fail)
             IN  IF r.ok /\ SwallowRaises(sig)
                 THEN [GenRec("AttributeError", FALSE, p, TRUE, TRUE, batch,
                              r.srv, 1)
                          EXCEPT !.maint = maint, !.execOk = TRUE]
                 ELSE [GenRec(IF r.ok THEN "None" ELSE "ExecError",
                              r.ok /\ Swallows(sig, self), p, TRUE, TRUE,
                              batch, r.srv, 1) EXCEPT !.maint = maint]

\* mutant: the commit is guarded like the rollback, other errors are dropped
CommitOutcome_Guarded(raised) ==
    IF raised = "OutOfOrderTransactionNesting" THEN raised ELSE "False"

\* the commit branch of _exit_gen: an exception of _commit_gen goes to the
\* caller, otherwise `return False`
CommitOutcome(raised) == IF raised # "None" THEN raised ELSE "False"

\* _exit_gen: `result` is what __exit__ gives its caller, "True" or "False"
\* when it returns and the exception's name when it raises ("BoolError" is
\* whatever the __bool__ or __len__ of exc_val raised); path is "none" when
\* neither _commit_gen nor _rollback_gen is reached.
exit_gen(sc, self, sig, fail, cleared) ==
    IF TestRaises(sig)
    THEN [path |-> "none",
          gen |-> GenRec("BoolError", FALSE,
                         [stack |-> savepoints, didPop |-> FALSE, sp |-> ""],
                         sc.exited, FALSE, << >>,
                         Srv(transaction_status, server_savepoints), 0),
          suppressed |-> FALSE, result |-> "BoolError"]
    ELSE IF TakesCommitPath(sig, sc.force_rollback)
    THEN LET g == commit_gen(sc, fail)
         IN  [path |-> "commit", gen |-> g, suppressed |-> FALSE,
              result |-> CommitOutcome(g.raised)]
    ELSE LET g == rollback_gen(sc, self, sig, fail, cleared)
         IN  IF g.raised = "None"
             THEN [path |-> "rollback", gen |-> g, suppressed |-> FALSE,
                   result |-> IF g.ret THEN "True" ELSE "False"]
             ELSE IF SuppressedInRollback(g.raised)
             THEN [path |-> "rollback", gen |-> g, suppressed |-> TRUE,
                   result |-> "False"]
             ELSE [path |-> "rollback", gen |-> g, suppressed |-> FALSE,
                   result |-> g.raised]

----------------------------------------------------------------------------
(* The callers: `with conn.transaction(name, force_rollback)` blocks and   *)
(* direct calls of __enter__ and __exit__.  Scope objects are built, and   *)
(* entered for the first time, in the order of their numbers; a scope may  *)
(* be built long before it is entered.  __exit__ is called once, and only  *)
(* for a scope whose __enter__ returned.                                   *)

\* the scope object s as it is now
Scope(s) ==
    [savepoint_name |-> savepoint_name[s],
     force_rollback |-> force_rollback[s], entered |-> entered[s],
     exited |-> exited[s], outer_transaction |-> outer_transaction[s]]

ScopeSeq == [i \in 1 .. NScopes |-> i]

OpenBlocks == {t \in Scopes : blk[t] = "open"}

\* the scopes whose block is running, outermost first
OpenSeq == SelectScopes(ScopeSeq, OpenBlocks)

ActiveScopes == {t \in Scopes : entered[t] /\ ~exited[t]}

\* some scope that entered after s has not exited
LaterActive(s) == \E t \in ActiveScopes : t > s

Snapshot(sc, s) ==
    [stack |-> savepoints, sc |-> sc, status |-> transaction_status,
     sps |-> server_savepoints, later |-> LaterActive(s),
     built |-> statusAtBuild[s]]

NoOp ==
    [kind |-> "none", scope |-> 0, sig |-> SigNone, result |-> "None",
     raised |-> "None", path |-> "none", suppressed |-> FALSE, didPop |-> FALSE, popped |-> "",
     submitted |-> FALSE, batch |-> << >>, execOk |-> FALSE, clears |-> 0,
     maint |-> << >>,
     pre |-> [stack |-> << >>, sc |-> Construct("", FALSE),
              status |-> "IDLE", sps |-> << >>, later |-> FALSE,
              built |-> "NONE"]]

EmptyChain == [sig |-> SigNone, open |-> << >>, recs |-> << >>]

\* no caller holds self._conn.lock
NoCaller == 0

\* the locals of a call of __enter__ or __exit__: the block's outcome, the
\* exception returned by _pop_savepoint, the batch handed to _exec_command
\* and the exception raised; back is where the caller is once the call has
\* raised, inside its block or after it
Frame(kind, sig) ==
    [kind |-> kind, sig |-> sig, ex |-> FALSE, batch |-> << >>,
     raised |-> "None", back |-> "done"]

NoFrame == Frame("none", SigNone)

Init ==
    /\ savepoint_name = [s \in Scopes |-> ""]
    /\ force_rollback = [s \in Scopes |-> FALSE]
    /\ entered = [s \in Scopes |-> FALSE]
    /\ exited = [s \in Scopes |-> FALSE]
    /\ outer_transaction = [s \in Scopes |-> FALSE]
    /\ savepoints = << >>
    /\ transaction_status = "IDLE"
    /\ server_savepoints = << >>
    /\ blk = [s \in Scopes |-> "new"]
    /\ stackAtEntry = [s \in Scopes |-> << >>]
    /\ pushes = [s \in Scopes |-> 0]
    /\ nested = TRUE
    /\ chain = EmptyChain
    /\ run = << >>
    /\ statusAtBuild = [s \in Scopes |-> "NONE"]
    /\ batchesOk = TRUE
    /\ begunOutside = FALSE
    /\ last = NoOp
    /\ lock = NoCaller
    /\ pc = [s \in Scopes |-> "new"]
    /\ frame = [s \in Scopes |-> NoFrame]

\* The state left by one __enter__ on the scope object sc, numbered s.
DoEnter(s, sc, fail) ==
    LET e == enter_gen(sc, fail)
    IN  /\ savepoint_name' = [savepoint_name EXCEPT ![s] = e.sc.savepoint_name]
        /\ force_rollback' = [force_rollback EXCEPT ![s] = e.sc.force_rollback]
        /\ entered' = [entered EXCEPT ![s] = e.sc.entered]
        /\ outer_transaction' =
               [outer_transaction EXCEPT ![s] = e.sc.outer_transaction]
        /\ savepoints' = e.stack
        /\ transaction_status' = e.srv.status
        /\ server_savepoints' = e.srv.sps
        /\ blk' = IF e.raised = "None" THEN [blk EXCEPT ![s] = "open"] ELSE blk
        /\ stackAtEntry' = IF sc.entered THEN stackAtEntry
                           ELSE [stackAtEntry EXCEPT ![s] = savepoints]
        /\ pushes' = [pushes EXCEPT ![s] = @ + e.pushed]
        /\ chain' = EmptyChain
        /\ run' = IF /\ ~sc.entered /\ sc.savepoint_name = ""
                      /\ e.pushed = 1 /\ ~e.sc.outer_transaction
                   THEN Append(run, s) ELSE run
        /\ last' = [kind |-> "enter", scope |-> s, sig |-> SigNone,
                    result |-> e.raised, raised |-> e.raised,
                    path |-> "none",
                    suppressed |-> FALSE, didPop |-> FALSE, popped |-> "",
                    submitted |-> e.submitted, batch |-> e.batch,
                    execOk |-> (e.submitted /\ e.raised = "None"),
                    clears |-> 0, maint |-> << >>, pre |-> Snapshot(sc, s)]
        /\ statusAtBuild' = [statusAtBuild EXCEPT ![s] = "NONE"]
        /\ batchesOk' = (batchesOk /\ (e.submitted => e.raised = "None"))
        /\ begunOutside' = (begunOutside /\ e.srv.status # "IDLE")
        /\ UNCHANGED << exited, nested, lockVars >>

\* conn.transaction(name, force) builds the scope object; the with statement
\* may enter it at once or later
Build(s, name, force) ==
    /\ last = NoOp
    /\ blk[s] = "new"
    /\ \A t \in Scopes : t < s => blk[t] # "new"
    /\ blk' = [blk EXCEPT ![s] = "built"]
    /\ savepoint_name' =
           [savepoint_name EXCEPT ![s] = Construct(name, force).savepoint_name]
    /\ force_rollback' =
           [force_rollback EXCEPT ![s] = Construct(name, force).force_rollback]
    /\ entered' = [entered EXCEPT ![s] = Construct(name, force).entered]
    /\ exited' = [exited EXCEPT ![s] = Construct(name, force).exited]
    /\ outer_transaction' =
           [outer_transaction EXCEPT
               ![s] = Construct(name, force).outer_transaction]
    /\ statusAtBuild' = [statusAtBuild EXCEPT ![s] = transaction_status]
    /\ UNCHANGED << savepoints, transaction_status, server_savepoints,
                    stackAtEntry, pushes, nested, chain, run, batchesOk,
                    begunOutside, last, lockVars >>

\* Transaction.__enter__ / AsyncTransaction.__aenter__ on a scope object
\* that was built and not entered
Enter(s, fail) ==
    /\ last = NoOp
    /\ blk[s] = "built" /\ ~entered[s]
    /\ \A t \in Scopes : t < s => entered[t]
    /\ DoEnter(s, Scope(s), fail)

\* __enter__ called again on a scope object that was entered before
ReEnter(s, fail) ==
    /\ last = NoOp
    /\ entered[s]
    /\ DoEnter(s, Scope(s), fail)

\* the outcomes a block can have now: a Rollback names no scope or a scope
\* object that has been built, entered or not
Outcomes ==
    {sig \in Signals : \/ sig.target \in {NoTarget, NoAttr}
                       \/ blk[sig.target] # "new"}

\* Transaction.__exit__ / AsyncTransaction.__aexit__ with the block's outcome
\* sig; cleared is consulted on the rollback path only.  A Rollback naming a
\* scope that an exit lets through (it returned False) and that reaches the
\* exit of the innermost running block next is the same exception
\* propagating: chain collects those exits.
ExitOp(s, sig, fail, cleared) ==
    /\ last = NoOp
    /\ blk[s] = "open"
    /\ sig \in Outcomes
    /\ (TestRaises(sig) \/ TakesCommitPath(sig, force_rollback[s]))
           => ~cleared
    /\ LET x == exit_gen(Scope(s), s, sig, fail, cleared)
           g == x.gen
           rec == [scope |-> s, result |-> x.result, path |-> x.path,
                   execOk |-> g.execOk]
       IN  /\ savepoints' = g.stack
           /\ exited' = [exited EXCEPT ![s] = g.exited]
           /\ transaction_status' = g.srv.status
           /\ server_savepoints' = g.srv.sps
           /\ blk' = [blk EXCEPT ![s] = "closed"]
           /\ nested' = (nested /\ ~LaterActive(s))
           /\ run' = << >>
           /\ batchesOk' = (batchesOk /\ (g.submitted => g.execOk))
           /\ begunOutside' = (begunOutside /\ g.srv.status # "IDLE")
           /\ chain' = IF ~IsRollback(sig) \/ sig.target \in {NoTarget, NoAttr}
                       THEN EmptyChain
                       ELSE IF /\ chain.recs # << >>
                               /\ chain.sig = sig
                               /\ Last(chain.recs).result = "False"
                               /\ s = Last(OpenSeq)
                       THEN [chain EXCEPT !.recs = Append(@, rec)]
                       ELSE [sig |-> sig, open |-> OpenSeq,
                             recs |-> << rec >>]
           /\ last' = [kind |-> "exit", scope |-> s, sig |-> sig,
                       result |-> x.result, raised |-> g.raised,
                       path |-> x.path, suppressed |-> x.suppressed, didPop |-> g.didPop,
                       popped |-> g.popped, submitted |-> g.submitted,
                       batch |-> g.batch,
                       execOk |-> g.execOk,
                       clears |-> g.clears, maint |-> g.maint,
                       pre |-> Snapshot(Scope(s), s)]
    /\ UNCHANGED << savepoint_name, force_rollback, entered,
                    outer_transaction, stackAtEntry, pushes, statusAtBuild,
                    lockVars >>

\* a statement run inside a block is rejected by the server
StatementFails ==
    /\ last = NoOp
    /\ OpenBlocks # {}
    /\ transaction_status = "INTRANS"
    /\ transaction_status' = "INERROR"
    /\ chain' = EmptyChain
    /\ UNCHANGED << scopeVars, savepoints, server_savepoints, blk,
                    stackAtEntry, pushes, nested, run, statusAtBuild,
                    batchesOk, begunOutside, last, lockVars >>

\* a statement run outside any block on a connection that is not in
\* autocommit mode opens the server transaction
StatementOutside ==
    /\ last = NoOp
    /\ OpenBlocks = {}
    /\ transaction_status = "IDLE"
    /\ transaction_status' = "INTRANS"
    /\ begunOutside' = TRUE
    /\ chain' = EmptyChain
    /\ UNCHANGED << scopeVars, savepoints, server_savepoints, blk,
                    stackAtEntry, pushes, nested, run, statusAtBuild,
                    batchesOk, last, lockVars >>

\* the caller takes what __enter__ or __exit__ gave it and goes on
Continue ==
    /\ last # NoOp
    /\ last' = NoOp
    /\ UNCHANGED << scopeVars, savepoints, transaction_status,
                    server_savepoints, blk, stackAtEntry, pushes, nested,
                    chain, run, statusAtBuild, batchesOk, begunOutside,
                    lockVars >>

Next ==
    \/ \E s \in Scopes, name \in CtorNames, force \in BOOLEAN :
          Build(s, name, force)
    \/ \E s \in Scopes, fail \in BOOLEAN : Enter(s, fail)
    \/ \E s \in Scopes, fail \in BOOLEAN : ReEnter(s, fail)
    \/ \E s \in Scopes, sig \in Signals, fail \in BOOLEAN,
          cleared \in BOOLEAN : ExitOp(s, sig, fail, cleared)
    \/ StatementFails
    \/ StatementOutside
    \/ Continue

Spec == Init /\ [][Next]_vars

TypeOK ==
    /\ savepoint_name \in [Scopes -> STRING]
    /\ blk \in [Scopes -> {"new", "built", "open", "closed"}]
    /\ transaction_status \in Statuses

----------------------------------------------------------------------------
(* The calls step by step.  Caller c (a thread, or a task of the event      *)
(* loop) runs `with conn.transaction(...)` on scope c: __enter__ and        *)
(* __exit__ take self._conn.lock and run the generator under it with        *)
(* self._conn.wait.  pc[c] is where caller c is:                            *)
(*   "new"       the scope is not built yet                                 *)
(*   "lockwait"  at `with self._conn.lock`, the lock not yet granted        *)
(*   "flag"      _enter_gen, before the _entered test and assignment        *)
(*   "push"      _enter_gen, before _push_savepoint                         *)
(*   "test"      _exit_gen, before `if not exc_val and ...`                 *)
(*   "pop"       _commit_gen / _rollback_gen, before _pop_savepoint         *)
(*   "xflag"     before `self._exited = True` and `if ex: raise ex`         *)
(*   "submit"    before the commands are built and handed to _exec_command  *)
(*   "wait"      the batch is sent, the round trip is not over              *)
(*   "ret"       the generator is over, the with statement not yet left     *)
(*   "block"     inside the block of the with statement                     *)
(*   "done"      the with statement is over                                 *)

\* mutant: the lock is given back while the round trip is awaited
UnderLock_NotRoundTrip(p) ==
    p \in {"flag", "push", "test", "pop", "xflag", "submit", "ret"}

\* the positions inside `with self._conn.lock:` / `async with self._conn.lock:`
UnderLock(p) ==
    p \in {"flag", "push", "test", "pop", "xflag", "submit", "wait", "ret"}

\* the lock grants an acquire only when nobody holds it
LockGrants(c, p, q) == (UnderLock(q) /\ ~UnderLock(p)) => lock = NoCaller

\* the holder of the lock once caller c has moved from p to q
LockAfter(c, p, q) ==
    IF UnderLock(q) /\ ~UnderLock(p) THEN c
    ELSE IF UnderLock(p) /\ ~UnderLock(q) THEN NoCaller
    ELSE lock

\* caller c moves from position p to position q
Goto(c, p, q) ==
    /\ pc[c] = p
    /\ LockGrants(c, p, q)
    /\ lock' = LockAfter(c, p, q)
    /\ pc' = [pc EXCEPT ![c] = q]

\* the names given to the scopes whose calls are followed step by step
StepNames == {"", "x"}

\* `with conn.transaction(name, force):` builds the scope and calls __enter__
CallEnter(c, name, force) ==
    /\ pc[c] = "new"
    /\ \A t \in Scopes : t < c => pc[t] # "new"
    /\ savepoint_name' = [savepoint_name EXCEPT ![c] = Construct(name, force).savepoint_name]
    /\ force_rollback' = [force_rollback EXCEPT ![c] = Construct(name, force).force_rollback]
    /\ frame' = [frame EXCEPT ![c] = Frame("enter", SigNone)]
    /\ pc' = [pc EXCEPT ![c] = "lockwait"]
    /\ UNCHANGED << entered, exited, outer_transaction, savepoints,
                    transaction_status, server_savepoints, lock, callVars >>

\* __enter__ is called again on a scope object, inside the block of its
\* with statement or after it
CallEnterAgain(c) ==
    /\ pc[c] \in {"block", "done"}
    /\ frame' = [frame EXCEPT
                    ![c] = [Frame("enter", SigNone) EXCEPT !.back = pc[c]]]
    /\ pc' = [pc EXCEPT ![c] = "lockwait"]
    /\ UNCHANGED << scopeVars, savepoints, transaction_status,
                    server_savepoints, lock, callVars >>

\* The outcomes of a block as far as the steps of __exit__ tell them apart:
\* the truth value of exc_val, and for a Rollback whether it has the
\* `transaction` attribute; the target a Rollback names and the kind of any
\* other exception decide only the value __exit__ returns.
StepOutcomes ==
    {SigNone, SigError, SigFalsy, Raising(SigError), SigRollback(NoTarget),
     Falsy(SigRollback(NoTarget)), SigRollback(NoAttr),
     Falsy(SigRollback(NoAttr))}

\* the block ends with outcome sig and the with statement calls __exit__
CallExit(c, sig) ==
    /\ pc[c] = "block"
    /\ sig \in StepOutcomes
    /\ frame' = [frame EXCEPT ![c] = Frame("exit", sig)]
    /\ pc' = [pc EXCEPT ![c] = "lockwait"]
    /\ UNCHANGED << scopeVars, savepoints, transaction_status,
                    server_savepoints, lock, callVars >>

\* the lock is granted and the generator starts
Acquire(c) ==
    /\ Goto(c, "lockwait", IF frame[c].kind = "enter" THEN "flag" ELSE "test")
    /\ UNCHANGED << scopeVars, savepoints, transaction_status,
                    server_savepoints, frame, callVars >>

\* _enter_gen: `if self._entered: raise TypeError`, `self._entered = True`
EnterFlag(c) ==
    /\ IF UsedOnce(Scope(c))
       THEN /\ Goto(c, "flag", "ret")
            /\ frame' = [frame EXCEPT ![c].raised = "TypeError"]
            /\ UNCHANGED entered
       ELSE /\ Goto(c, "flag", "push")
            /\ entered' = [entered EXCEPT ![c] = TRUE]
            /\ UNCHANGED frame
    /\ UNCHANGED << savepoint_name, force_rollback, exited, outer_transaction,
                    savepoints, transaction_status, server_savepoints,
                    callVars >>

\* _enter_gen: `self._push_savepoint()`
EnterPush(c) ==
    LET p == push_savepoint(savepoint_name[c], transaction_status, savepoints)
    IN  /\ Goto(c, "push", IF p.raised # "None" THEN "ret" ELSE "submit")
        /\ outer_transaction' = [outer_transaction EXCEPT ![c] = p.outer]
        /\ savepoint_name' = [savepoint_name EXCEPT ![c] = p.name]
        /\ savepoints' = p.stack
        /\ frame' = [frame EXCEPT ![c].raised = p.raised]
        /\ UNCHANGED << force_rollback, entered, exited, transaction_status,
                        server_savepoints, callVars >>

\* _exit_gen: `if not exc_val and not self.force_rollback`; the test raises
\* when the truth value of exc_val cannot be taken
ExitTest(c) ==
    /\ Goto(c, "test", IF TestRaises(frame[c].sig) THEN "ret" ELSE "pop")
    /\ frame' = [frame EXCEPT
                    ![c].raised = IF TestRaises(frame[c].sig)
                                  THEN "BoolError" ELSE "None"]
    /\ UNCHANGED << scopeVars, savepoints, transaction_status,
                    server_savepoints, callVars >>

\* _commit_gen / _rollback_gen: `ex = self._pop_savepoint(...)`
ExitPop(c) ==
    LET p == pop_savepoint(savepoint_name[c], savepoints)
    IN  /\ Goto(c, "pop", IF p.raised # "None" THEN "ret" ELSE "xflag")
        /\ savepoints' = p.stack
        /\ frame' = [frame EXCEPT ![c].raised = p.raised, ![c].ex = p.ex]
        /\ UNCHANGED << scopeVars, transaction_status, server_savepoints,
                        callVars >>

\* _commit_gen / _rollback_gen: `self._exited = True`, `if ex: raise ex`
ExitFlag(c) ==
    /\ Goto(c, "xflag", IF frame[c].ex THEN "ret" ELSE "submit")
    /\ exited' = [exited EXCEPT ![c] = TRUE]
    /\ frame' = [frame EXCEPT ![c].raised =
                     IF frame[c].ex THEN "OutOfOrderTransactionNesting"
                     ELSE "None"]
    /\ UNCHANGED << savepoint_name, force_rollback, entered,
                    outer_transaction, savepoints, transaction_status,
                    server_savepoints, callVars >>

\* the commands the call at hand builds
FrameCommands(c, cleared) ==
    IF frame[c].kind = "enter"
    THEN EnterCommands(outer_transaction[c], savepoint_name[c])
    ELSE IF TakesCommitPath(frame[c].sig, force_rollback[c])
    THEN CommitCommands(outer_transaction[c], savepoint_name[c])
    ELSE RollbackBatchWith(
             RollbackCommands(outer_transaction[c], savepoint_name[c]),
             PreparedClear(cleared))

\* the commands are built (an outer scope asserts the stack is empty when it
\* exits) and handed to self._conn._exec_command
Submit(c, cleared) ==
    LET failed == /\ frame[c].kind = "exit"
                  /\ outer_transaction[c]
                  /\ savepoints # << >>
        commit == \/ frame[c].kind = "enter"
                  \/ TakesCommitPath(frame[c].sig, force_rollback[c])
    IN  /\ (failed \/ commit) => ~cleared
        /\ Goto(c, "submit", IF failed THEN "ret" ELSE "wait")
        /\ frame' = [frame EXCEPT
                        ![c].raised = IF failed THEN "AssertionError" ELSE "None",
                        ![c].batch = IF failed THEN << >> ELSE FrameCommands(c, cleared)]
        /\ UNCHANGED << scopeVars, savepoints, transaction_status,
                        server_savepoints, callVars >>

\* self._conn.wait: the round trip ends with the result of the batch and the
\* generator runs to its end; after an accepted batch _rollback_gen goes on
\* to `exc_val.transaction`, which raises for a Rollback without it
RoundTrip(c, fail) ==
    LET r == ExecCommand(frame[c].batch,
                         Srv(transaction_status, server_savepoints), fail)
        rollback == /\ frame[c].kind = "exit"
                    /\ ~TakesCommitPath(frame[c].sig, force_rollback[c])
    IN  /\ Goto(c, "wait", "ret")
        /\ transaction_status' = r.srv.status
        /\ server_savepoints' = r.srv.sps
        /\ frame' = [frame EXCEPT
                        ![c].raised =
                            IF ~r.ok THEN "ExecError"
                            ELSE IF rollback /\ SwallowRaises(frame[c].sig)
                            THEN "AttributeError"
                            ELSE "None"]
        /\ UNCHANGED << scopeVars, savepoints, callVars >>

\* a lock released by hand after the wait, with no protection against an
\* exception: a call that raises keeps the lock
ReleasesLock_OnReturnOnly(raised) == raised = "None"

\* `with self._conn.lock:` releases the lock however its body is left, by
\* return or by any exception (raised is the exception leaving the body)
ReleasesLock(raised) == TRUE

\* the generator is over: the with statement of __enter__ / __exit__ is left
\* and the call returns or raises, its locals are gone
Return(c) ==
    /\ pc[c] = "ret"
    /\ LET q == IF frame[c].kind = "enter" /\ frame[c].raised = "None"
                THEN "block" ELSE frame[c].back
       IN  /\ pc' = [pc EXCEPT ![c] = q]
           /\ lock' = IF ReleasesLock(frame[c].raised)
                       THEN LockAfter(c, "ret", q) ELSE lock
    /\ frame' = [frame EXCEPT ![c] = NoFrame]
    /\ UNCHANGED << scopeVars, savepoints, transaction_status,
                    server_savepoints, callVars >>

LockNext ==
    \/ \E c \in Scopes, name \in StepNames, force \in BOOLEAN :
           CallEnter(c, name, force)
    \/ \E c \in Scopes : CallEnterAgain(c)
    \/ \E c \in Scopes, sig \in Signals : CallExit(c, sig)
    \/ \E c \in Scopes : Acquire(c)
    \/ \E c \in Scopes : EnterFlag(c)
    \/ \E c \in Scopes : EnterPush(c)
    \/ \E c \in Scopes : ExitTest(c)
    \/ \E c \in Scopes : ExitPop(c)
    \/ \E c \in Scopes : ExitFlag(c)
    \/ \E c \in Scopes, cleared \in BOOLEAN : Submit(c, cleared)
    \/ \E c \in Scopes, fail \in BOOLEAN : RoundTrip(c, fail)
    \/ \E c \in Scopes : Return(c)

LockSpec == Init /\ [][LockNext]_vars

\* a call that holds the lock runs on: the thread or task inside the with
\* statement is never suspended for ever, and each round trip to the server
\* eventually completes (with a result or an error)
CallProgress ==
    \A c \in Scopes :
        /\ WF_vars(EnterFlag(c))
        /\ WF_vars(EnterPush(c))
        /\ WF_vars(ExitTest(c))
        /\ WF_vars(ExitPop(c))
        /\ WF_vars(ExitFlag(c))
        /\ WF_vars(\E cleared \in BOOLEAN : Submit(c, cleared))
        /\ WF_vars(\E fail \in BOOLEAN : RoundTrip(c, fail))
        /\ WF_vars(Return(c))

\* the lock is granted fairly: a caller that finds the lock free again and
\* again is not passed over for ever
FairLock == \A c \in Scopes : SF_vars(Acquire(c))

\* the callers of __enter__ / __exit__ under a fair lock; nothing obliges a
\* program to call, so the Call actions carry no fairness
LockFairSpec == LockSpec /\ CallProgress /\ FairLock

----------------------------------------------------------------------------
(* Properties *)

IsExit == last.kind = "exit"
IsEnter == last.kind = "enter"
OutOfOrder == "OutOfOrderTransactionNesting"

\* the exit popped a name that is not the name of its scope
Mismatch == last.didPop /\ last.popped # last.pre.sc.savepoint_name

\* the exit popped the name of its scope
NestingCheckPassed == last.didPop /\ last.popped = last.pre.sc.savepoint_name

\* C1: whenever a scope is exited while a scope that entered after it has
\* not exited, the exit raises OutOfOrderTransactionNesting, whatever the
\* savepoint names are.
C1_OutOfOrderAlwaysDetected ==
    (IsExit /\ last.pre.later) => last.result = OutOfOrder

\* C2: whenever the name popped by an exit differs from the name of the
\* exiting scope, exit raises OutOfOrderTransactionNesting, for every block
\* outcome and force_rollback setting; the error is not logged and dropped
\* and exit does not return.
C2_NestingErrorHasPriority ==
    (IsExit /\ Mismatch) =>
        /\ last.result = OutOfOrder
        /\ last.raised = OutOfOrder
        /\ ~last.suppressed

\* a mismatched exit on the rollback path, reached with an explicit Rollback
\* of the exiting scope
C2_Witness ==
    /\ IsExit /\ Mismatch
    /\ last.path = "rollback"
    /\ last.sig = SigRollback(last.scope)
    /\ last.result = OutOfOrder

\* C3: while every exit has been the exit of the innermost scope entered and
\* not exited, the stack after a scope exits is the stack just before that
\* scope entered, and it is empty once the outer transaction scope has exited.
C3_StackBalance ==
    (IsExit /\ nested) =>
        /\ savepoints = stackAtEntry[last.scope]
        /\ last.pre.sc.outer_transaction => savepoints = << >>

\* C4: the length of the stack is the number of scopes entered and not
\* exited, in every state, whatever the operations did before, the ones that
\* ended with a failed stack-empty assertion included.
C4_StackLengthIsActiveCount ==
    Len(savepoints) = Cardinality(ActiveScopes)

\* the Rollback carries no target: its transaction is None or was never set
TargetUnset(sig) == sig.target \in {NoTarget, NoAttr}

\* C5: exit returns True exactly when the outcome is a Rollback whose target
\* is unset or the exiting scope, the nesting check passed and the rollback
\* batch was executed; an exit that returns in any other case returns False.
C5_SwallowDecision ==
    IsExit =>
        /\ last.result = "True" <=>
              /\ IsRollback(last.sig)
              /\ TargetUnset(last.sig) \/ last.sig.target = last.scope
              /\ NestingCheckPassed
              /\ last.path = "rollback" /\ last.execOk
        /\ last.result \in {"True", "False"} \/ last.result = last.raised

\* the commands of a batch
Cmds(batch) == {batch[i] : i \in 1 .. Len(batch)}

\* position of scope s in seq, 0 when absent
IndexOf(seq, s) ==
    IF \E i \in 1 .. Len(seq) : seq[i] = s
    THEN CHOOSE i \in 1 .. Len(seq) : seq[i] = s
    ELSE 0

\* A Rollback naming a running scope U was raised in the innermost running
\* block T, the scopes have been exited innermost first all along, and every
\* exit the Rollback reached so far had its batch executed.
TargetedUnwinding ==
    /\ chain.recs # << >>
    /\ nested
    /\ chain.recs[1].scope = Last(chain.open)
    /\ IndexOf(chain.open, chain.sig.target) > 0
    /\ \A i \in 1 .. Len(chain.recs) : chain.recs[i].execOk

\* C6: a Rollback naming U raised in the innermost block T exits the scopes
\* from T outward in LIFO order, each by the rollback path; every scope
\* inside U returns False, U returns True, no scope around U is exited, and
\* the stack is then the stack just before U entered.
C6_TargetedRollbackUnwinds ==
    TargetedUnwinding =>
        LET n == Len(chain.recs)
            k == Len(chain.open)
            U == chain.sig.target
        IN  /\ n <= k
            /\ \A i \in 1 .. n :
                   LET r == chain.recs[i]
                   IN  /\ r.scope = chain.open[k - i + 1]
                       /\ k - i + 1 >= IndexOf(chain.open, U)
                       /\ r.path = "rollback"
                       /\ r.scope # U => r.result = "False"
                       /\ r.scope = U => r.result = "True" /\ i = n
            /\ chain.recs[n].scope = U => savepoints = stackAtEntry[U]

\* the batch starts with the commands of a rollback
RollbackBatch(batch) ==
    \/ Len(batch) >= 1 /\ batch[1] = CmdRollback
    \/ /\ Len(batch) >= 2
       /\ batch[1].cmd = "ROLLBACK TO"
       /\ batch[2] = CmdRelease(batch[1].name)

\* C7: an exit takes the commit path exactly when the block gave no signal
\* and force_rollback is false, and the rollback path otherwise; the batch
\* of a force_rollback scope, submitted whenever its exit gets past the
\* nesting checks, holds the rollback commands and never COMMIT.
C7_ExitPathSelection ==
    IsExit =>
        /\ last.path \in {"commit", "rollback"}
        /\ last.path = "commit" <=>
               (last.sig = SigNone /\ ~last.pre.sc.force_rollback)
        /\ last.path = "rollback" =>
               /\ CmdCommit \notin Cmds(last.batch)
               /\ last.submitted => RollbackBatch(last.batch)
               /\ last.raised \in {"None", "ExecError"} => last.submitted
        /\ last.path = "commit" =>
               \A c \in Cmds(last.batch) : c.cmd \in {"RELEASE", "COMMIT"}

\* C8: when the batch of the rollback path fails, exit does not raise: it
\* returns False, the scope is marked exited and its name is off the stack.
C8_CleanupErrorSuppressed ==
    (IsExit /\ last.path = "rollback" /\ last.submitted /\ ~last.execOk) =>
        /\ last.result = "False"
        /\ last.suppressed
        /\ exited[last.scope]
        /\ last.popped = last.pre.sc.savepoint_name
        /\ savepoints = Front(last.pre.stack)

\* a plain error left the block and the rollback batch failed
C8_Witness ==
    /\ IsExit
    /\ last.path = "rollback"
    /\ last.sig = SigError
    /\ last.submitted /\ ~last.execOk
    /\ last.result = "False"

\* C9: an error returned by the execution of an exit's batch is raised by
\* exit, on the commit path and on the rollback path alike.
C9_ExecErrorPropagates ==
    (IsExit /\ last.submitted /\ ~last.execOk) => last.result = "ExecError"

\* C9, amended: the error is raised by exit on the commit path; on the
\* rollback path it is dropped and exit returns False.
C9_ExecErrorPropagatesOnCommit ==
    (IsExit /\ last.submitted /\ ~last.execOk) =>
        /\ last.path = "commit" => last.result = "ExecError"
        /\ last.path = "rollback" => last.result = "False"

\* the batch of a commit failed and the error reached the caller
C9_Witness ==
    /\ IsExit
    /\ last.path = "commit"
    /\ last.submitted /\ ~last.execOk
    /\ last.result = "ExecError"

\* C10: entering a scope that was entered before raises TypeError, leaves
\* the stack, the scope and the server as they were and submits nothing;
\* no scope pushes more than once.
C10_OneShot ==
    /\ (IsEnter /\ last.pre.sc.entered) =>
           /\ last.result = "TypeError"
           /\ savepoints = last.pre.stack
           /\ Scope(last.scope) = last.pre.sc
           /\ ~last.submitted
           /\ server_savepoints = last.pre.sps
           /\ transaction_status = last.pre.status
    /\ \A s \in Scopes : pushes[s] <= 1

\* a scope that entered and exited is entered again
C10_Witness ==
    /\ IsEnter
    /\ last.pre.sc.entered /\ last.pre.sc.exited
    /\ last.result = "TypeError"
    /\ pushes[last.scope] = 1

\* the positions between the first and the last step of a call
CallSteps ==
    {"flag", "push", "test", "pop", "xflag", "submit", "wait", "ret"}

\* C11: a caller that is anywhere between the first step of an entry or exit
\* (the flag test, the push or the pop) and the end of its round trip holds
\* the connection lock, so no two callers are inside a scope operation at the
\* same time and the steps of two operations never interleave.
C11_MutualExclusion ==
    /\ \A c \in Scopes : pc[c] \in CallSteps => lock = c
    /\ \A c1, c2 \in Scopes :
           (pc[c1] \in CallSteps /\ pc[c2] \in CallSteps) => c1 = c2

\* one caller awaits the result of its batch while another caller, whose
\* scope is open, has called __exit__ and is kept at the lock
C11_Witness ==
    \E c1, c2 \in Scopes :
        /\ c1 # c2
        /\ pc[c1] = "wait" /\ lock = c1
        /\ pc[c2] = "lockwait" /\ frame[c2].kind = "exit"
        /\ savepoints # << >>

\* C12: whenever the connection's transaction status is idle, the savepoint
\* stack is empty, after any sequence of entries and exits, those whose
\* batch failed included.
C12_IdleImpliesEmptyStack ==
    transaction_status = "IDLE" => savepoints = << >>

\* the index carried by a synthesized name, 0 for any other name
SynthIndex(name) ==
    IF \E k \in 1 .. NScopes + 1 : name = "_pg3_" \o ToString(k)
    THEN CHOOSE k \in 1 .. NScopes + 1 : name = "_pg3_" \o ToString(k)
    ELSE 0

\* C13: the anonymous inner scopes entered one after the other with no exit
\* in between each carry the name of index k + 1, k the length of the stack
\* when the scope entered; their names are pairwise distinct and the indices
\* grow with the nesting depth.
C13_SynthesizedNamesDistinct ==
    /\ \A i \in 1 .. Len(run) :
           /\ savepoint_name[run[i]] = "_pg3_" \o ToString(Len(stackAtEntry[run[i]]) + 1)
           /\ SynthIndex(savepoint_name[run[i]]) = Len(stackAtEntry[run[i]]) + 1
    /\ \A i, j \in 1 .. Len(run) :
           i < j =>
               /\ savepoint_name[run[i]] # savepoint_name[run[j]]
               /\ SynthIndex(savepoint_name[run[i]])
                      < SynthIndex(savepoint_name[run[j]])
               /\ Len(stackAtEntry[run[i]]) < Len(stackAtEntry[run[j]])

\* two anonymous inner scopes are nested one in the other and both open
C13_Witness ==
    /\ Len(run) >= 2
    /\ blk[run[1]] = "open" /\ blk[run[2]] = "open"
    /\ savepoints = << savepoint_name[run[1]], savepoint_name[run[2]] >>

\* the commands of batch from position i on
Suffix(batch, i) == SubSeq(batch, i, Len(batch))

\* C14: an exit on the rollback path that submits a batch calls the
\* invalidation of the prepared-statement cache exactly once, and the
\* maintenance commands it yields are the end of that one batch, after the
\* rollback commands; an entry and an exit on the commit path never call it
\* and send no maintenance command.
C14_PreparedCacheInvalidation ==
    /\ (IsExit /\ last.path = "rollback" /\ last.submitted) =>
           /\ last.clears = 1
           /\ Len(last.batch) >= Len(last.maint)
           /\ Suffix(last.batch, Len(last.batch) - Len(last.maint) + 1)
                  = last.maint
           /\ RollbackBatch(last.batch)
           /\ CmdDeallocate \in Cmds(last.batch) <=> last.maint # << >>
    /\ (IsEnter \/ (IsExit /\ last.path = "commit")) =>
           /\ last.clears = 0
           /\ last.maint = << >>
           /\ CmdDeallocate \notin Cmds(last.batch)

\* the rollback of an inner scope found statements to deallocate and sent
\* the command in the batch of the rollback
C14_Witness ==
    /\ IsExit /\ last.path = "rollback" /\ last.execOk
    /\ ~last.pre.sc.outer_transaction
    /\ last.clears = 1
    /\ last.maint = << CmdDeallocate >>
    /\ Len(last.batch) = 3 /\ last.batch[3] = CmdDeallocate

\* C15: an exit made on a non-empty stack removes the top element and only
\* that one, whether or not it is the name of the exiting scope; when it is
\* not, the scope is marked exited all the same, nothing is submitted, the
\* prepared-statement cache is not invalidated, and the transaction status
\* and the savepoints of the server are what they were before the exit.
C15_MismatchedExitEffect ==
    (IsExit /\ last.pre.stack # << >>) =>
        /\ last.didPop
        /\ last.popped = Last(last.pre.stack)
        /\ savepoints = Front(last.pre.stack)
        /\ Mismatch =>
               /\ exited[last.scope]
               /\ ~last.submitted /\ last.batch = << >>
               /\ last.clears = 0 /\ last.maint = << >>
               /\ transaction_status = last.pre.status
               /\ server_savepoints = last.pre.sps

\* C16: an entry that returns has pushed one name, the scope's name after
\* synthesis, and submitted one batch: BEGIN exactly when the transaction
\* status was idle when the entry ran (whatever it was when the scope was
\* built), then SAVEPOINT <name> exactly when that name is not empty.  An
\* outer scope built with a name sends both, an inner scope always sends a
\* SAVEPOINT of a non-empty name.
C16_EntryBatch ==
    (IsEnter /\ last.result = "None") =>
        LET nm == savepoint_name[last.scope]
            idle == last.pre.status = "IDLE"
        IN  /\ savepoints = Append(last.pre.stack, nm)
            /\ pushes[last.scope] = 1
            /\ last.submitted
            /\ outer_transaction[last.scope] = idle
            /\ last.batch =
                   (IF idle THEN << CmdBegin >> ELSE << >>)
                       \o (IF nm # "" THEN << CmdSavepoint(nm) >> ELSE << >>)
            /\ (idle /\ last.pre.sc.savepoint_name # "") =>
                   last.batch = << CmdBegin,
                                   CmdSavepoint(last.pre.sc.savepoint_name) >>
            /\ ~idle => (nm # "" /\ last.batch = << CmdSavepoint(nm) >>)

\* a scope built while the connection was idle is entered after another
\* scope began the transaction: it is an inner scope and sends no BEGIN
C16_Witness ==
    /\ IsEnter /\ last.result = "None"
    /\ last.pre.built = "IDLE"
    /\ last.pre.status = "INTRANS"
    /\ last.pre.sc.savepoint_name = ""
    /\ ~outer_transaction[last.scope]
    /\ last.batch = << CmdSavepoint("_pg3_2") >>
    /\ savepoints = << "", "_pg3_2" >>

\* C17: the batch submitted by an exit whose nesting check passed follows
\* from the path, the outer flag and the name alone.  Commit path: COMMIT
\* alone for an outer scope, named or not, RELEASE <name> for an inner scope.
\* Rollback path: ROLLBACK alone for an outer scope, ROLLBACK TO <name>;
\* RELEASE <name> for an inner scope.  An inner scope always has a name and
\* never sends COMMIT or ROLLBACK, an outer scope never sends RELEASE or
\* ROLLBACK TO.
C17_ExitBatch ==
    (IsExit /\ NestingCheckPassed /\ last.submitted) =>
        LET nm == last.pre.sc.savepoint_name
            outer == last.pre.sc.outer_transaction
        IN  /\ ~outer => nm # ""
            /\ (last.path = "commit" /\ outer) => last.batch = << CmdCommit >>
            /\ (last.path = "commit" /\ ~outer) =>
                   last.batch = << CmdRelease(nm) >>
            /\ (last.path = "rollback" /\ outer) =>
                   last.batch = << CmdRollback >>
            /\ (last.path = "rollback" /\ ~outer) =>
                   last.batch = << CmdRollbackTo(nm), CmdRelease(nm) >>
            /\ ~outer => \A c \in Cmds(last.batch) :
                             c.cmd \notin {"COMMIT", "ROLLBACK"}
            /\ outer => \A c \in Cmds(last.batch) :
                            c.cmd \notin {"RELEASE", "ROLLBACK TO"}

\* C17, amended: on the rollback path the commands above are followed, in
\* the same batch, by the maintenance commands that the invalidation of the
\* prepared-statement cache yields, if any; the batch follows from the path,
\* the outer flag, the name and those commands.
C17_ExitBatchWithMaintenance ==
    (IsExit /\ NestingCheckPassed /\ last.submitted) =>
        LET nm == last.pre.sc.savepoint_name
            outer == last.pre.sc.outer_transaction
        IN  /\ ~outer => nm # ""
            /\ (last.path = "commit" /\ outer) => last.batch = << CmdCommit >>
            /\ (last.path = "commit" /\ ~outer) =>
                   last.batch = << CmdRelease(nm) >>
            /\ (last.path = "rollback" /\ outer) =>
                   last.batch = << CmdRollback >> \o last.maint
            /\ (last.path = "rollback" /\ ~outer) =>
                   last.batch = << CmdRollbackTo(nm), CmdRelease(nm) >>
                                    \o last.maint
            /\ ~outer => \A c \in Cmds(last.batch) :
                             c.cmd \notin {"COMMIT", "ROLLBACK"}
            /\ outer => \A c \in Cmds(last.batch) :
                            c.cmd \notin {"RELEASE", "ROLLBACK TO"}

\* an outer scope built with a name rolls back while the cache has
\* statements to deallocate: ROLLBACK and the maintenance command, no
\* ROLLBACK TO and no RELEASE
C17_Witness ==
    /\ IsExit /\ NestingCheckPassed /\ last.execOk
    /\ last.path = "rollback"
    /\ last.pre.sc.outer_transaction
    /\ last.pre.sc.savepoint_name = "x"
    /\ last.maint # << >>
    /\ last.batch = << CmdRollback >> \o last.maint
    /\ last.pre.sps = << "x" >>
    /\ transaction_status = "IDLE"

\* the names of the stack are pairwise distinct
PairwiseDistinct(stack) ==
    \A i, j \in 1 .. Len(stack) : i # j => stack[i] # stack[j]

\* the entry of a scope built without a name on a connection that is not idle
AnonymousInnerEntry ==
    /\ IsEnter /\ ~last.pre.sc.entered
    /\ last.pre.sc.savepoint_name = ""
    /\ last.pre.status # "IDLE"

\* C18: the name synthesized for an anonymous inner scope is a function of
\* the depth of the stack alone, index = depth + 1, also when that name is
\* on the stack already; the stack then holds the name twice.  Such a state
\* is reached (C18_Witness).
C18_SynthesizedNameCollision ==
    AnonymousInnerEntry =>
        LET nm == "_pg3_" \o ToString(Len(last.pre.stack) + 1)
        IN  /\ savepoint_name[last.scope] = nm
            /\ savepoints = Append(last.pre.stack, nm)
            /\ (\E i \in 1 .. Len(last.pre.stack) : last.pre.stack[i] = nm)
                   => ~PairwiseDistinct(savepoints)

\* an anonymous inner scope has entered and its synthesized name is the name
\* of another scope that is open: two open scopes, one name, twice on the
\* stack and twice among the savepoints of the server
C18_Witness ==
    /\ AnonymousInnerEntry /\ last.result = "None"
    /\ \E t \in Scopes :
           /\ t # last.scope
           /\ blk[t] = "open" /\ ~exited[t]
           /\ savepoint_name[t] = savepoint_name[last.scope]
    /\ ~PairwiseDistinct(savepoints)
    /\ ~PairwiseDistinct(server_savepoints)

\* C19: when the batch submitted by an entry fails, the stack after the
\* entry is the stack before it: the name of the scope is not left on it.
C19_FailedEntryLeavesNoTrace ==
    (IsEnter /\ last.submitted /\ ~last.execOk) =>
        savepoints = last.pre.stack

\* the names of the stack that are not the marker of an unnamed outer scope
NonEmptyNames(stack) == SelectSeq(stack, LAMBDA n : n # "")

\* the scopes were exited innermost first and every batch was executed
CleanRun == nested /\ batchesOk

\* every exit made so far got past the test of the block's outcome and the
\* pop, as far as marking its scope exited
ExitsRan == \A s \in Scopes : blk[s] = "closed" => exited[s]

OutsideCall(c) == pc[c] \notin CallSteps

\* C21: the connection lock is always released. A caller that is not inside
\* an entry or an exit never holds the lock; the step that ends a call,
\* whether the call returns or raises (TypeError, AssertionError,
\* OutOfOrderTransactionNesting, a command execution error, or the error of
\* the test of the block's outcome), leaves the lock
\* free; and so, when each round trip completes and the lock is granted
\* fairly, every caller waiting at the lock to enter or exit a scope
\* eventually gets it and completes its call.
C21_LockAlwaysReleased ==
    /\ [](\A c \in Scopes : OutsideCall(c) => lock # c)
    /\ [][\A c \in Scopes :
              (pc[c] = "ret" /\ pc'[c] # "ret") => lock' = NoCaller]_vars
    /\ \A c \in Scopes :
           (pc[c] = "lockwait") ~> (pc[c] \in CallSteps)
    /\ \A c \in Scopes :
           (pc[c] = "lockwait") ~> (pc[c] \in {"block", "done"})

\* a caller's entry has raised after its batch failed (its scope is entered
\* and will never be open) and the call is over; the other caller, which had
\* to come after it, now holds the lock for the exit of its own scope
C21_Witness ==
    \E c1, c2 \in Scopes :
        /\ c1 # c2
        /\ pc[c1] = "done" /\ entered[c1] /\ ~exited[c1]
        /\ lock = c2 /\ pc[c2] \in CallSteps /\ frame[c2].kind = "exit"

====
